---- MODULE Spec2Model ----
(***************************************************************************)
(* The event gallery of pixigo15 (React component ViewEvent) in its two    *)
(* variants:                                                               *)
(*   strategy "A"  src/src/components/ViewEvent.tsx  (per-face: index all  *)
(*                 images, then search every face record by face id)       *)
(*   strategy "B"  src/unnamed/part_000              (whole-image: search  *)
(*                 by image, then index the image under its group id)      *)
(* The state is the component's React state, the locals of every running   *)
(* async handler (a "flow"), the S3 bucket and the Rekognition collections.*)
(* One action is one piece of a handler between two awaits, together with  *)
(* the outcome of the awaited call.                                        *)
(***************************************************************************)
EXTENDS Integers, Sequences, FiniteSets, TLC

VARIABLES
    strategy,          \* "A" or "B": which variant of the component runs
    props,             \* the props eventId and selectedEvent of the latest render
    browser,           \* localStorage has a userEmail; the page the location names
    world,             \* the pairs of faces the recognition service finds similar
    storage,           \* per event: keys of the objects stored under its prefix
    collectionExists,  \* per collection id: the collection has been created
    collection,        \* per collection id: the indexed faces, records
                       \* [face, tag (ExternalImageId)]
    images,            \* useState images
    faceGroups,        \* useState faceGroups: group id -> members
    allFaceRecords,    \* useState allFaceRecords (strategy A)
    deleting,          \* useState deleting: list of keys
    loading,           \* useState loading
    error,             \* useState error
    uploading,         \* useState uploading
    uploadProgress,    \* useState uploadProgress
    flows,             \* running and finished fetch/upload handlers with their locals
    dels               \* handleDelete calls: [key, pc]

vars == <<strategy, props, browser, world, storage, collectionExists, collection, images,
          faceGroups, allFaceRecords, deleting, loading, error, uploading,
          uploadProgress, flows, dels>>

----------------------------------------------------------------------------
(* Bounds of the model *)

\* handleDelete calls issued in one behaviour
MaxDeletes == 2
\* handleFileChange calls (upload flows) issued in one behaviour
MaxUploads == 1
\* files chosen in one call of handleFileChange
MaxFiles == 2
\* size of an uploaded file, in the units progress events count
FileSize == 2

(* Program constants *)

\* FaceMatchThreshold of SearchFacesCommand / SearchFacesByImageCommand
FaceMatchThreshold == 80
\* MaxFaces of SearchFacesCommand (strategy A)
MaxFacesA == 5
\* MaxFaces of SearchFacesByImageCommand (strategy B)
MaxFacesB == 10

----------------------------------------------------------------------------
(* The world outside the component *)

\* A letter stands for a full key, prefix included: it names one object.
\* keys that can be found under events/shared/e1/images at mount
StoredKeys == {"A", "B", "C"}
\* a key that can be found under events/shared/e2/images at mount
OtherEventKeys == {"P"}
\* the key written by the u-th upload flow (Date.now()-file.name: always new)
UploadKeys == <<"D", "E">>
\* the key of the second file of the u-th upload flow; its name does not end in
\* jpg, jpeg or png, so the filter of fetchEventImages never lists it
UnlistedKeys == <<"V", "W">>
\* S3 lists keys in lexicographic order
KeyOrder == <<"A", "B", "C", "D", "E", "P">>

\* the faces the service detects in each image, largest first
FacesIn(k) ==
    CASE k = "A" -> <<"a">>
      [] k = "B" -> <<"b">>
      [] k = "C" -> <<"c", "c2">>
      [] k = "D" -> <<"d">>
      [] k = "E" -> <<"e">>
      [] k = "P" -> <<"p">>

\* pairs of faces that may be similar above the threshold; Init picks which are
CandidatePairs == {{"a", "b"}, {"b", "c"}, {"a", "c"}, {"a", "d"}, {"a", "c2"}}
\* the three pairs among the first faces of the stored images
StoredPairs == {{"a", "b"}, {"b", "c"}, {"a", "c"}}

\* similarity reported for two faces (a percentage)
Similarity(f, g) ==
    IF f = g THEN 100
    ELSE IF {f, g} \notin world THEN 10
    ELSE CASE {f, g} = {"a", "b"} -> 95
           [] {f, g} = {"a", "d"} -> 90
           [] {f, g} = {"b", "c"} -> 85
           [] {f, g} = {"a", "c"} -> 82
           [] {f, g} = {"a", "c2"} -> 81

Range(s) == {s[i] : i \in DOMAIN s}

EmptyFn == [x \in {} |-> ""]

NoError == "null"

AuthMessage == "Authentication required. Please log in."

\* a browser with a stored userEmail, on the page of the event
SignedIn == [userEmail |-> TRUE, path |-> "view"]
\* browsers without a stored userEmail, on the event page or on upload-selfie
SignedOut == {[userEmail |-> FALSE, path |-> q] : q \in {"view", "upload-selfie"}}

\* Math.round(n / d) for n >= 0, d > 0
Round(n, d) == (2 * n + d) \div (2 * d)

\* the percentage handleFileChange computes from a progress event; total = 0
\* stands for an event without total
Percentage(loaded, total) == Round(loaded * 100, IF total = 0 THEN 1 ELSE total)

\* `group_${groupCount}` (strategy A)
GroupName == <<"group_1", "group_2", "group_3", "group_4", "group_5", "group_6",
               "group_7", "group_8">>

\* `group_${Date.now()}_${random}` (strategy B): a token no other call returns.
\* The call is identified by the image and the serial number of the pass.
NewGroupId(k, n) == "group_" \o k \o ToString(n)

\* every ordering of the entries S by descending similarity to face q
RECURSIVE BySimilarity(_, _)
BySimilarity(S, q) ==
    IF S = {} THEN {<<>>}
    ELSE LET top == {e \in S : \A e2 \in S : Similarity(q, e.face) >= Similarity(q, e2.face)}
         IN UNION {{<<e>> \o s : s \in BySimilarity(S \ {e}, q)} : e \in top}

Truncate(s, n) == IF Len(s) > n THEN SubSeq(s, 1, n) ELSE s

----------------------------------------------------------------------------
(* Flows: one per call of fetchEventImages (mount effect) or handleFileChange *)

\* the event shown at mount and another event
EventIds == {"e1", "e2"}
\* selectedEvent is not supplied
NoEvent == ""
\* the values of the props
PropsValues == [eventId : EventIds, selectedEvent : {NoEvent} \cup EventIds]

\* const eventToUse = selectedEvent || eventId, of the render a flow was called in
EventToUse(f) == IF f.selectedEvent # NoEvent THEN f.selectedEvent ELSE f.eventId
\* const collectionId = eventId
CollectionId(f) == f.eventId
\* the prefix handleFileChange builds its keys with: events/shared/${eventId}/images
UploadPrefix(f) == f.eventId

\* flow 0 is the mount effect, 1 .. MaxUploads are the calls of handleFileChange,
\* ReloadFlow is the effect running again after eventId / selectedEvent changed
ReloadFlow == MaxUploads + 1
FlowIds == 0 .. ReloadFlow

\* serial number of the grouping pass a flow is running
PassNo(p, f) == IF p = 0 THEN 1 ELSE IF f.second THEN 2 * p + 1 ELSE 2 * p

\* the locals of a handler; ensured is how the ensureCollection of the running pass
\* ended: "listed", "created", or "listFailed" / "createFailed" (caught and logged)
IdleFlow(kind) ==
    [kind |-> kind, pc |-> "idle", eventId |-> "e1", selectedEvent |-> NoEvent,
     second |-> FALSE, stale |-> <<>>,
     result |-> "", loaded |-> <<>>, passImages |-> <<>>,
     ensured |-> "", srch |-> EmptyFn, idx |-> EmptyFn, gid |-> EmptyFn, resp |-> EmptyFn,
     temp |-> <<>>, fsrch |-> EmptyFn, handled |-> <<>>,
     faceIdToGroupId |-> EmptyFn, groupCount |-> 0,
     newGroups |-> EmptyFn, published |-> FALSE]

\* detectAndGroupFaces(imgs) up to its first await (ensureCollection's list call)
StartPass(f, imgs) ==
    [f EXCEPT !.pc = "ensureList", !.passImages = imgs, !.ensured = "",
              !.srch = EmptyFn, !.idx = EmptyFn, !.gid = EmptyFn, !.resp = EmptyFn,
              !.temp = <<>>, !.fsrch = EmptyFn, !.handled = <<>>,
              !.faceIdToGroupId = EmptyFn,
              !.groupCount = 0, !.newGroups = EmptyFn, !.published = FALSE]

PassKeys(f) == {f.passImages[i].key : i \in DOMAIN f.passImages}

\* the concurrent part of detectAndGroupFaces begins: every call is issued
StartCalls(f) ==
    IF strategy = "A"
    THEN [f EXCEPT !.pc = "phase1", !.idx = [k \in PassKeys(f) |-> "pending"]]
    ELSE [f EXCEPT !.pc = "pairs", !.srch = [k \in PassKeys(f) |-> "pending"],
                   !.idx = [k \in PassKeys(f) |-> "waiting"]]

\* the caller of fetchEventImages resumes; in strategy B handleFileChange goes on
\* with detectAndGroupFaces(images), images being the list its closure captured
AfterFetch(f) ==
    IF f.kind = "upload" /\ strategy = "B"
    THEN [StartPass(f, f.stale) EXCEPT !.second = TRUE]
    ELSE [f EXCEPT !.pc = "done"]

\* the finally block of handleFileChange runs when the flow ends
UploadingAfter(f, g) == IF f.kind = "upload" /\ g.pc = "done" THEN FALSE ELSE uploading
UploadProgressAfter(f, g) ==
    IF f.kind = "upload" /\ g.pc = "done" THEN 0 ELSE uploadProgress

----------------------------------------------------------------------------
(* The recognition service *)

\* SearchFacesByImage for image k in collection c: the indexed faces similar to the largest face
\* of the image, most similar first, at most MaxFacesB of them
SearchFacesByImage(c, k) ==
    LET q == Head(FacesIn(k))
        hits == {e \in collection[c] : Similarity(q, e.face) >= FaceMatchThreshold}
    IN {Truncate(s, MaxFacesB) : s \in BySimilarity(hits, q)}

\* SearchFaces for an indexed face of collection c: the other faces similar to it
SearchFaces(c, faceId) ==
    LET hits == {e \in collection[c] :
                    e.face # faceId /\ Similarity(faceId, e.face) >= FaceMatchThreshold}
    IN {Truncate(s, MaxFacesA) : s \in BySimilarity(hits, faceId)}

\* IndexFaces of image k with ExternalImageId tag: what collection c holds after
IndexFaces(c, k, tag) ==
    collection[c] \cup {[face |-> FacesIn(k)[i], tag |-> tag] : i \in DOMAIN FacesIn(k)}

----------------------------------------------------------------------------
(* Strategy B: detectAndGroupFaces of src/unnamed/part_000 *)

\* a resolution that takes the tag of the last match with a tag other than the key
ResolveFromLastMatch(resp, key, fresh) ==
    LET found == SelectSeq(resp, LAMBDA m : m.tag # "" /\ m.tag # key)
    IN IF found # <<>> THEN found[Len(found)].tag ELSE fresh

\* the group id of an image from its search response (fresh: the id to mint)
ResolveGroupId(resp, key, fresh) ==
    LET found == SelectSeq(resp, LAMBDA m : m.tag # "" /\ m.tag # key)
        groupId == IF Len(resp) > 0 /\ found # <<>> THEN Head(found).tag ELSE ""
    IN IF groupId = "" THEN fresh ELSE groupId

\* the loop that builds groups from the results
RECURSIVE BuildGroups(_, _, _, _)
BuildGroups(imgs, gidOf, i, groups) ==
    IF i > Len(imgs) THEN groups
    ELSE LET image == imgs[i]
             gid == IF image.key \in DOMAIN gidOf THEN gidOf[image.key] ELSE "unknown"
         IN BuildGroups(imgs, gidOf, i + 1,
                IF gid \in DOMAIN groups
                THEN [groups EXCEPT ![gid] = Append(@, image)]
                ELSE groups @@ (gid :> <<image>>))

\* the "Other Images" list of the render: images that are no member of a group
\* (Array.includes compares object identity)
OtherImages ==
    LET grouped == UNION {Range(faceGroups[g]) : g \in DOMAIN faceGroups}
    IN SelectSeq(images, LAMBDA image : image \notin grouped)

----------------------------------------------------------------------------
(* Strategy A: detectAndGroupFaces of src/src/components/ViewEvent.tsx *)

\* the face records one IndexFaces response adds to tempFaceRecords
FaceRecordsOf(image) ==
    [i \in DOMAIN FacesIn(image.key) |-> [faceId |-> FacesIn(image.key)[i], image |-> image]]

\* a lookup to which no assignment of another callback is visible
NoGroupIdVisible(resp, faceIdToGroupId) == <<>>

\* the group ids of the matched faces that are already in faceIdToGroupId
MatchedGroupIds(resp, faceIdToGroupId) ==
    LET known == SelectSeq(resp, LAMBDA m : m.face \in DOMAIN faceIdToGroupId)
    IN [i \in DOMAIN known |-> faceIdToGroupId[known[i].face]]

\* a Phase 2 callback that looks at the first matched face only: it adopts that
\* face's group if it has one and mints a group otherwise
AdoptFromFirstMatch(f, faceId, resp) ==
    IF Len(resp) > 0 /\ resp[1].face \in DOMAIN f.faceIdToGroupId
    THEN [f EXCEPT !.faceIdToGroupId = @ @@ (faceId :> f.faceIdToGroupId[resp[1].face])]
    ELSE [f EXCEPT !.groupCount = @ + 1,
                   !.faceIdToGroupId = @ @@ (faceId :> GroupName[f.groupCount + 1])]

\* a Phase 2 callback that ignores the search response and mints a group
MintGroup(f, faceId, resp) ==
    [f EXCEPT !.groupCount = @ + 1,
              !.faceIdToGroupId = @ @@ (faceId :> GroupName[f.groupCount + 1])]

\* the Phase 2 callback of one face on a search response
AssignGroup(f, faceId, resp) ==
    LET matched == MatchedGroupIds(resp, f.faceIdToGroupId)
    IN IF Len(resp) > 0 /\ Len(matched) > 0
       THEN [f EXCEPT !.faceIdToGroupId = @ @@ (faceId :> matched[1])]
       ELSE [f EXCEPT !.groupCount = @ + 1,
                      !.faceIdToGroupId = @ @@ (faceId :> GroupName[f.groupCount + 1])]

\* a catch that puts the face into the group allocated last, if there is one
FallbackReusesGroup(f, faceId) ==
    IF f.groupCount > 0
    THEN [f EXCEPT !.faceIdToGroupId = @ @@ (faceId :> GroupName[f.groupCount])]
    ELSE [f EXCEPT !.groupCount = @ + 1,
                   !.faceIdToGroupId = @ @@ (faceId :> GroupName[f.groupCount + 1])]

\* the Phase 2 callback of one face whose search threw
FallbackGroup(f, faceId) ==
    [f EXCEPT !.groupCount = @ + 1,
              !.faceIdToGroupId = @ @@ (faceId :> GroupName[f.groupCount + 1])]

\* a loop that assigns newGroups[gid] = [faceRec] instead of pushing to it
RECURSIVE BuildFaceGroupsOverwriting(_, _, _, _)
BuildFaceGroupsOverwriting(recs, faceIdToGroupId, i, groups) ==
    IF i > Len(recs) THEN groups
    ELSE LET faceRec == recs[i]
             gid == faceIdToGroupId[faceRec.faceId]
         IN BuildFaceGroupsOverwriting(recs, faceIdToGroupId, i + 1,
                (gid :> <<faceRec>>) @@ groups)

\* a loop that puts the face record collected first into a group of its own
RECURSIVE BuildFaceGroupsFirstApart(_, _, _, _)
BuildFaceGroupsFirstApart(recs, faceIdToGroupId, i, groups) ==
    IF i > Len(recs) THEN groups
    ELSE LET faceRec == recs[i]
             gid == IF i = 1 THEN "group_0" ELSE faceIdToGroupId[faceRec.faceId]
         IN BuildFaceGroupsFirstApart(recs, faceIdToGroupId, i + 1,
                IF gid \in DOMAIN groups
                THEN [groups EXCEPT ![gid] = Append(@, faceRec)]
                ELSE groups @@ (gid :> <<faceRec>>))

\* the loop that builds newGroups from tempFaceRecords
RECURSIVE BuildFaceGroups(_, _, _, _)
BuildFaceGroups(recs, faceIdToGroupId, i, groups) ==
    IF i > Len(recs) THEN groups
    ELSE LET faceRec == recs[i]
             gid == faceIdToGroupId[faceRec.faceId]
         IN BuildFaceGroups(recs, faceIdToGroupId, i + 1,
                IF gid \in DOMAIN groups
                THEN [groups EXCEPT ![gid] = Append(@, faceRec)]
                ELSE groups @@ (gid :> <<faceRec>>))

----------------------------------------------------------------------------
(* Rendering of the face groups, strategy A *)

\* images.find(...) found nothing
NoImage == [key |-> "undefined", obj |-> -1]

\* Array.from(new Set(keys)): the distinct keys in order of first occurrence
RECURSIVE DistinctKeys(_, _, _)
DistinctKeys(recs, i, acc) ==
    IF i > Len(recs) THEN acc
    ELSE DistinctKeys(recs, i + 1,
             IF recs[i].image.key \in Range(acc) THEN acc
             ELSE Append(acc, recs[i].image.key))

\* a list of a group's images that keeps one entry per face record
ImagesPerFaceRecord(faceRecs, imgs) ==
    [i \in DOMAIN faceRecs |->
        IF \E img \in Range(imgs) : img.key = faceRecs[i].image.key
        THEN CHOOSE img \in Range(imgs) : img.key = faceRecs[i].image.key
        ELSE NoImage]

\* uniqueImages of one group: its distinct image keys looked up in images
UniqueImages(faceRecs, imgs) ==
    LET keys == DistinctKeys(faceRecs, 1, <<>>)
    IN [i \in DOMAIN keys |->
           IF \E img \in Range(imgs) : img.key = keys[i]
           THEN CHOOSE img \in Range(imgs) : img.key = keys[i]
           ELSE NoImage]

\* the images rendered under a group (`if (!img) return null`)
ShownInGroup(g) ==
    SelectSeq(UniqueImages(faceGroups[g], images), LAMBDA img : img # NoImage)

----------------------------------------------------------------------------
(* handleDelete *)

\* a filter with the comparison inverted: prev.filter(img => img.key === image.key)
RemoveImageInverted(imgs, key) == SelectSeq(imgs, LAMBDA img : img.key = key)

\* prev.filter(img => img.key !== image.key)
RemoveImage(imgs, key) == SelectSeq(imgs, LAMBDA img : img.key # key)

\* prev.filter(fr => fr.image.key !== image.key)
RemoveFaceRecords(recs, key) == SelectSeq(recs, LAMBDA fr : fr.image.key # key)

\* prev.filter(key => key !== image.key)
RemoveKey(keys, key) == SelectSeq(keys, LAMBDA k : k # key)

\* the setFaceGroups update of strategy A: filter every group, drop the empty ones
RetractFromGroupsA(prev, key) ==
    LET filtered == [g \in DOMAIN prev |-> RemoveFaceRecords(prev[g], key)]
    IN [g \in {h \in DOMAIN filtered : Len(filtered[h]) # 0} |-> filtered[g]]

\* the setFaceGroups update of strategy B: filter every group
RetractFromGroupsB(prev, key) ==
    [g \in DOMAIN prev |-> RemoveImage(prev[g], key)]

----------------------------------------------------------------------------
(* The state after the component is constructed and its mount effect has   *)
(* called fetchEventImages, which awaits the S3 listing                     *)

InitAt(stored, worlds, browsers, rendered) ==
    /\ strategy \in {"A", "B"}
    /\ props \in rendered
    /\ browser \in browsers
    /\ world \in worlds
    /\ storage = stored
    /\ collectionExists = [c \in EventIds |-> FALSE]
    /\ collection = [c \in EventIds |-> {}]
    /\ images = <<>>
    /\ faceGroups = EmptyFn
    /\ allFaceRecords = <<>>
    /\ deleting = <<>>
    /\ loading = TRUE
    /\ error = IF browser.path = "upload-selfie" /\ ~browser.userEmail
               THEN AuthMessage ELSE NoError
    /\ uploading = FALSE
    /\ uploadProgress = 0
    /\ flows = [p \in FlowIds |->
                  IF p = 0
                  THEN [IdleFlow("load") EXCEPT !.pc = "list",
                                                !.eventId = props.eventId,
                                                !.selectedEvent = props.selectedEvent]
                  ELSE IF p = ReloadFlow THEN IdleFlow("load")
                  ELSE IdleFlow("upload")]
    /\ dels = <<>>

\* the component shows event e1, no selectedEvent is supplied, and nothing is
\* stored under the prefix of e2
InitOf(keys, worlds, browsers) ==
    InitAt([e \in EventIds |-> IF e = "e1" THEN keys ELSE {}], worlds, browsers,
           {[eventId |-> "e1", selectedEvent |-> NoEvent]})

\* the same with a stored userEmail
InitWith(keys, worlds) == InitOf(keys, worlds, {SignedIn})

\* one stored image, and the uploaded image may show the same person
Init == InitWith({"A"}, SUBSET {{"a", "d"}})

\* three stored images with any similarities among their first faces
InitLoad == InitWith(StoredKeys, SUBSET StoredPairs)

\* three stored images that show one person
InitDelete == InitWith(StoredKeys, {StoredPairs})

\* two stored images, A of one person and C of two; the three are different, or
\* the person of A resembles both persons of C
InitReload == InitWith({"A", "C"}, {{}, {{"a", "c"}, {"a", "c2"}}})

\* two stored images of one person, or an event with nothing stored under its
\* prefix
InitTerminates == InitWith({"A", "B"}, {{{"a", "b"}}}) \/ InitWith({}, {{}})

\* one stored image, no userEmail stored in the browser
InitAuth == InitOf({"A"}, SUBSET {{"a", "d"}}, SignedOut)

\* one image stored under each event's prefix; the component shows event e1,
\* with no selectedEvent or with either event as selectedEvent
InitSelected ==
    InitAt([e \in EventIds |-> IF e = "e1" THEN {"A"} ELSE OtherEventKeys],
           SUBSET {{"a", "d"}}, {SignedIn},
           {r \in PropsValues : r.eventId = "e1"})

\* one image stored under each event's prefix; the component shows event e1
InitOverlap ==
    InitAt([e \in EventIds |-> IF e = "e1" THEN {"A"} ELSE OtherEventKeys],
           {{}}, {SignedIn}, {[eventId |-> "e1", selectedEvent |-> NoEvent]})

\* the gallery is rendered (neither the spinner nor the error page)
MainView == ~loading /\ error = NoError

----------------------------------------------------------------------------
(* fetchEventImages *)

\* the objects the listing returns for flow p, as fresh EventImage objects
ListObjects(p) ==
    LET ks == SelectSeq(KeyOrder, LAMBDA k : k \in storage[EventToUse(flows[p])])
    IN [i \in DOMAIN ks |-> [key |-> ks[i], obj |-> p]]

\* the listing succeeds
FetchListOk(p) ==
    /\ flows[p].pc = "list"
    /\ LET allImages == ListObjects(p)
           f == flows[p]
       IN IF Len(allImages) > 0
          THEN /\ images' = allImages
               /\ flows' = [flows EXCEPT ![p] = StartPass(f, allImages)]
               /\ UNCHANGED <<error, loading, uploading, uploadProgress>>
          ELSE /\ error' = "No images found for this event."
               /\ loading' = FALSE
               /\ flows' = [flows EXCEPT ![p] = AfterFetch([f EXCEPT !.result = "empty"])]
               /\ uploading' = UploadingAfter(f, AfterFetch(f))
               /\ uploadProgress' = UploadProgressAfter(f, AfterFetch(f))
               /\ UNCHANGED images
    /\ UNCHANGED <<strategy, props, browser, world, storage, collectionExists, collection, faceGroups,
                   allFaceRecords, deleting, dels>>

\* a listing failure that is swallowed: the error state is cleared
FetchListFailSwallowed(p) ==
    /\ flows[p].pc = "list"
    /\ LET f == [flows[p] EXCEPT !.result = "StorageError"]
       IN /\ error' = NoError
          /\ loading' = FALSE
          /\ flows' = [flows EXCEPT ![p] = AfterFetch(f)]
          /\ uploading' = UploadingAfter(f, AfterFetch(f))
          /\ uploadProgress' = UploadProgressAfter(f, AfterFetch(f))
    /\ UNCHANGED <<strategy, props, browser, world, storage, collectionExists, collection, images,
                   faceGroups, allFaceRecords, deleting, dels>>

\* a fetchEventImages without the finally block: the failure leaves loading as it is
FetchListFailKeepsLoading(p) ==
    /\ flows[p].pc = "list"
    /\ LET f == [flows[p] EXCEPT !.result = "StorageError"]
       IN /\ error' = "ListObjects failed"
          /\ flows' = [flows EXCEPT ![p] = AfterFetch(f)]
          /\ uploading' = UploadingAfter(f, AfterFetch(f))
          /\ uploadProgress' = UploadProgressAfter(f, AfterFetch(f))
    /\ UNCHANGED <<strategy, props, browser, world, storage, collectionExists, collection, images,
                   faceGroups, allFaceRecords, deleting, loading, dels>>

\* the listing fails: no image was listed, the error is re-thrown and shown
FetchListFail(p) ==
    /\ flows[p].pc = "list"
    /\ LET f == [flows[p] EXCEPT !.result = "StorageError"]
       IN /\ error' = "ListObjects failed"
          /\ loading' = FALSE
          /\ flows' = [flows EXCEPT ![p] = AfterFetch(f)]
          /\ uploading' = UploadingAfter(f, AfterFetch(f))
          /\ uploadProgress' = UploadProgressAfter(f, AfterFetch(f))
    /\ UNCHANGED <<strategy, props, browser, world, storage, collectionExists, collection, images,
                   faceGroups, allFaceRecords, deleting, dels>>

\* eventId or selectedEvent changes after the load at mount has returned: the
\* effect runs again and calls fetchEventImages of the new render
PropsChange(next) ==
    /\ flows[ReloadFlow].pc = "idle"
    /\ flows[0].pc = "done"
    /\ next # props
    /\ props' = next
    /\ flows' = [flows EXCEPT ![ReloadFlow].pc = "list",
                              ![ReloadFlow].eventId = next.eventId,
                              ![ReloadFlow].selectedEvent = next.selectedEvent]
    /\ UNCHANGED <<strategy, browser, world, storage, collectionExists, collection, images,
                   faceGroups, allFaceRecords, deleting, loading, error, uploading,
                   uploadProgress, dels>>

\* the same while the load at mount is still running: the effect does not wait
\* for it and nothing cancels it
PropsChangeWhileLoading(next) ==
    /\ flows[ReloadFlow].pc = "idle"
    /\ flows[0].pc \notin {"idle", "done"}
    /\ next # props
    /\ props' = next
    /\ flows' = [flows EXCEPT ![ReloadFlow].pc = "list",
                              ![ReloadFlow].eventId = next.eventId,
                              ![ReloadFlow].selectedEvent = next.selectedEvent]
    /\ UNCHANGED <<strategy, browser, world, storage, collectionExists, collection, images,
                   faceGroups, allFaceRecords, deleting, loading, error, uploading,
                   uploadProgress, dels>>

----------------------------------------------------------------------------
(* ensureCollection *)

EnsureListOk(p) ==
    /\ flows[p].pc = "ensureList"
    /\ flows' = [flows EXCEPT ![p] =
                    IF collectionExists[CollectionId(@)]
                    THEN StartCalls([@ EXCEPT !.ensured = "listed"])
                    ELSE [@ EXCEPT !.pc = "ensureCreate"]]
    /\ UNCHANGED <<strategy, props, browser, world, storage, collectionExists, collection, images,
                   faceGroups, allFaceRecords, deleting, loading, error, uploading,
                   uploadProgress, dels>>

EnsureListFail(p) ==
    /\ flows[p].pc = "ensureList"
    /\ flows' = [flows EXCEPT ![p] = StartCalls([@ EXCEPT !.ensured = "listFailed"])]
    /\ UNCHANGED <<strategy, props, browser, world, storage, collectionExists, collection, images,
                   faceGroups, allFaceRecords, deleting, loading, error, uploading,
                   uploadProgress, dels>>

EnsureCreateOk(p) ==
    /\ flows[p].pc = "ensureCreate"
    /\ ~collectionExists[CollectionId(flows[p])]
    /\ collectionExists' = [collectionExists EXCEPT ![CollectionId(flows[p])] = TRUE]
    /\ flows' = [flows EXCEPT ![p] = StartCalls([@ EXCEPT !.ensured = "created"])]
    /\ UNCHANGED <<strategy, props, browser, world, storage, collection, images,
                   faceGroups, allFaceRecords, deleting, loading, error, uploading,
                   uploadProgress, dels>>

\* an aborting ensureCollection: the failed create ends the pass
EnsureCreateAborts(p) ==
    /\ flows[p].pc = "ensureCreate"
    /\ flows' = [flows EXCEPT ![p] = [@ EXCEPT !.pc = "done", !.ensured = "createFailed",
                                                !.result = "failed"]]
    /\ UNCHANGED <<strategy, props, browser, world, storage, collectionExists, collection, images,
                   faceGroups, allFaceRecords, deleting, loading, error, uploading,
                   uploadProgress, dels>>

EnsureCreateFail(p) ==
    /\ flows[p].pc = "ensureCreate"
    /\ flows' = [flows EXCEPT ![p] = StartCalls([@ EXCEPT !.ensured = "createFailed"])]
    /\ UNCHANGED <<strategy, props, browser, world, storage, collectionExists, collection, images,
                   faceGroups, allFaceRecords, deleting, loading, error, uploading,
                   uploadProgress, dels>>

----------------------------------------------------------------------------
(* detectAndGroupFaces, strategy B *)

SearchByImageOk(p, k) ==
    /\ strategy = "B"
    /\ flows[p].pc = "pairs"
    /\ k \in DOMAIN flows[p].srch
    /\ flows[p].srch[k] = "pending"
    /\ collectionExists[CollectionId(flows[p])]
    /\ \E resp \in SearchFacesByImage(CollectionId(flows[p]), k) :
          flows' = [flows EXCEPT ![p].srch[k] = "ok", ![p].idx[k] = "pending",
                       ![p].resp = @ @@ (k :> resp),
                       ![p].gid = @ @@ (k :> ResolveGroupId(resp, k,
                                                  NewGroupId(k, PassNo(p, flows[p]))))]
    /\ UNCHANGED <<strategy, props, browser, world, storage, collectionExists, collection, images,
                   faceGroups, allFaceRecords, deleting, loading, error, uploading,
                   uploadProgress, dels>>

SearchByImageFail(p, k) ==
    /\ strategy = "B"
    /\ flows[p].pc = "pairs"
    /\ k \in DOMAIN flows[p].srch
    /\ flows[p].srch[k] = "pending"
    /\ flows' = [flows EXCEPT ![p].srch[k] = "failed", ![p].idx[k] = "pending",
                    ![p].gid = @ @@ (k :> ResolveGroupId(<<>>, k,
                                               NewGroupId(k, PassNo(p, flows[p]))))]
    /\ UNCHANGED <<strategy, props, browser, world, storage, collectionExists, collection, images,
                   faceGroups, allFaceRecords, deleting, loading, error, uploading,
                   uploadProgress, dels>>

\* an index call that tags the faces with the image's key
IndexImageTaggedWithKey(p, k) ==
    /\ strategy = "B"
    /\ flows[p].pc = "pairs"
    /\ k \in DOMAIN flows[p].idx
    /\ flows[p].idx[k] = "pending"
    /\ collectionExists[CollectionId(flows[p])]
    /\ collection' = [collection EXCEPT ![CollectionId(flows[p])] =
                          IndexFaces(CollectionId(flows[p]), k, k)]
    /\ flows' = [flows EXCEPT ![p].idx[k] = "ok"]
    /\ UNCHANGED <<strategy, props, browser, world, storage, collectionExists, images,
                   faceGroups, allFaceRecords, deleting, loading, error, uploading,
                   uploadProgress, dels>>

IndexImageOk(p, k) ==
    /\ strategy = "B"
    /\ flows[p].pc = "pairs"
    /\ k \in DOMAIN flows[p].idx
    /\ flows[p].idx[k] = "pending"
    /\ collectionExists[CollectionId(flows[p])]
    /\ collection' = [collection EXCEPT ![CollectionId(flows[p])] =
                          IndexFaces(CollectionId(flows[p]), k, flows[p].gid[k])]
    /\ flows' = [flows EXCEPT ![p].idx[k] = "ok"]
    /\ UNCHANGED <<strategy, props, browser, world, storage, collectionExists, images,
                   faceGroups, allFaceRecords, deleting, loading, error, uploading,
                   uploadProgress, dels>>

IndexImageFail(p, k) ==
    /\ strategy = "B"
    /\ flows[p].pc = "pairs"
    /\ k \in DOMAIN flows[p].idx
    /\ flows[p].idx[k] = "pending"
    /\ flows' = [flows EXCEPT ![p].idx[k] = "failed"]
    /\ UNCHANGED <<strategy, props, browser, world, storage, collectionExists, collection, images,
                   faceGroups, allFaceRecords, deleting, loading, error, uploading,
                   uploadProgress, dels>>

\* some call of the pass has settled (Promise.race in place of Promise.all)
AnySettled(f) == \E k \in DOMAIN f.idx : f.idx[k] \in {"ok", "failed"}

\* every call of the pass has settled
Settled(f) == \A k \in DOMAIN f.idx : f.idx[k] \in {"ok", "failed"}

\* Promise.all resolves: the groups are built and published; then the caller resumes
PublishB(p) ==
    /\ strategy = "B"
    /\ flows[p].pc = "pairs"
    /\ Settled(flows[p])
    /\ LET f == flows[p]
           groups == BuildGroups(f.passImages, f.gid, 1, EmptyFn)
           g == [f EXCEPT !.newGroups = groups, !.published = TRUE, !.ensured = "",
                          !.result = IF f.second THEN @ ELSE "ok"]
           h == IF f.second THEN [g EXCEPT !.pc = "done"] ELSE AfterFetch(g)
       IN /\ faceGroups' = groups
          /\ error' = IF f.second THEN error ELSE NoError
          /\ loading' = IF f.second THEN loading ELSE FALSE
          /\ flows' = [flows EXCEPT ![p] = h]
          /\ uploading' = UploadingAfter(f, h)
          /\ uploadProgress' = UploadProgressAfter(f, h)
    /\ UNCHANGED <<strategy, props, browser, world, storage, collectionExists, collection, images,
                   allFaceRecords, deleting, dels>>

----------------------------------------------------------------------------
(* detectAndGroupFaces, strategy A *)

\* Phase 1: IndexFaces of one image returns its face records
IndexFacesOk(p, k) ==
    /\ strategy = "A"
    /\ flows[p].pc = "phase1"
    /\ k \in DOMAIN flows[p].idx
    /\ flows[p].idx[k] = "pending"
    /\ collectionExists[CollectionId(flows[p])]
    /\ collection' = [collection EXCEPT ![CollectionId(flows[p])] =
                          IndexFaces(CollectionId(flows[p]), k, "placeholder")]
    /\ LET image == CHOOSE img \in Range(flows[p].passImages) : img.key = k
       IN flows' = [flows EXCEPT ![p].idx[k] = "ok",
                                 ![p].temp = @ \o FaceRecordsOf(image)]
    /\ UNCHANGED <<strategy, props, browser, world, storage, collectionExists, images,
                   faceGroups, allFaceRecords, deleting, loading, error, uploading,
                   uploadProgress, dels>>

\* an IndexFaces failure that rejects the whole pass: nothing is published
IndexFacesRejects(p, k) ==
    /\ strategy = "A"
    /\ flows[p].pc = "phase1"
    /\ k \in DOMAIN flows[p].idx
    /\ flows[p].idx[k] = "pending"
    /\ flows' = [flows EXCEPT ![p].idx[k] = "failed", ![p].pc = "done"]
    /\ UNCHANGED <<strategy, props, browser, world, storage, collectionExists, collection, images,
                   faceGroups, allFaceRecords, deleting, loading, error, uploading,
                   uploadProgress, dels>>

\* Phase 1: IndexFaces of one image throws, the catch returns no face record
IndexFacesFail(p, k) ==
    /\ strategy = "A"
    /\ flows[p].pc = "phase1"
    /\ k \in DOMAIN flows[p].idx
    /\ flows[p].idx[k] = "pending"
    /\ flows' = [flows EXCEPT ![p].idx[k] = "failed"]
    /\ UNCHANGED <<strategy, props, browser, world, storage, collectionExists, collection, images,
                   faceGroups, allFaceRecords, deleting, loading, error, uploading,
                   uploadProgress, dels>>

\* the first Promise.all resolves: setAllFaceRecords, then every search is issued
StartPhase2(p) ==
    /\ strategy = "A"
    /\ flows[p].pc = "phase1"
    /\ Settled(flows[p])
    /\ allFaceRecords' = flows[p].temp
    /\ flows' = [flows EXCEPT ![p].pc = "phase2",
                    ![p].fsrch = [x \in {flows[p].temp[i].faceId : i \in DOMAIN flows[p].temp}
                                    |-> "pending"]]
    /\ UNCHANGED <<strategy, props, browser, world, storage, collectionExists, collection, images,
                   faceGroups, deleting, loading, error, uploading,
                   uploadProgress, dels>>

\* Phase 2: the search of one face record answers and its callback runs
SearchFacesOk(p, faceId) ==
    /\ strategy = "A"
    /\ flows[p].pc = "phase2"
    /\ faceId \in DOMAIN flows[p].fsrch
    /\ flows[p].fsrch[faceId] = "pending"
    /\ collectionExists[CollectionId(flows[p])]
    /\ \E resp \in SearchFaces(CollectionId(flows[p]), faceId) :
          flows' = [flows EXCEPT ![p] =
                       [AssignGroup(@, faceId, resp) EXCEPT !.fsrch[faceId] = "ok",
                                                            !.handled = Append(@, faceId),
                                                            !.resp = @ @@ (faceId :> resp)]]
    /\ UNCHANGED <<strategy, props, browser, world, storage, collectionExists, collection, images,
                   faceGroups, allFaceRecords, deleting, loading, error, uploading,
                   uploadProgress, dels>>

SearchFacesFail(p, faceId) ==
    /\ strategy = "A"
    /\ flows[p].pc = "phase2"
    /\ faceId \in DOMAIN flows[p].fsrch
    /\ flows[p].fsrch[faceId] = "pending"
    /\ flows' = [flows EXCEPT ![p] =
                    [FallbackGroup(@, faceId) EXCEPT !.fsrch[faceId] = "failed",
                                                     !.handled = Append(@, faceId)]]
    /\ UNCHANGED <<strategy, props, browser, world, storage, collectionExists, collection, images,
                   faceGroups, allFaceRecords, deleting, loading, error, uploading,
                   uploadProgress, dels>>

\* a pass that does not publish when a load started after it is under way
PublishAUnlessSuperseded(p) ==
    /\ strategy = "A"
    /\ flows[p].pc = "phase2"
    /\ \A x \in DOMAIN flows[p].fsrch : flows[p].fsrch[x] # "pending"
    /\ LET f == flows[p]
           newGroups == BuildFaceGroups(f.temp, f.faceIdToGroupId, 1, EmptyFn)
           h == AfterFetch([f EXCEPT !.newGroups = newGroups, !.published = TRUE,
                                     !.handled = <<>>, !.ensured = "",
                                     !.result = "ok"])
       IN /\ faceGroups' = IF \E q \in FlowIds : q > p /\ flows[q].pc # "idle"
                           THEN faceGroups ELSE newGroups
          /\ error' = NoError
          /\ loading' = FALSE
          /\ flows' = [flows EXCEPT ![p] = h]
          /\ uploading' = UploadingAfter(f, h)
          /\ uploadProgress' = UploadProgressAfter(f, h)
    /\ UNCHANGED <<strategy, props, browser, world, storage, collectionExists, collection, images,
                   allFaceRecords, deleting, dels>>

\* the second Promise.all resolves: newGroups is built and published, and
\* fetchEventImages finishes
PublishA(p) ==
    /\ strategy = "A"
    /\ flows[p].pc = "phase2"
    /\ \A x \in DOMAIN flows[p].fsrch : flows[p].fsrch[x] # "pending"
    /\ LET f == flows[p]
           newGroups == BuildFaceGroups(f.temp, f.faceIdToGroupId, 1, EmptyFn)
           h == AfterFetch([f EXCEPT !.newGroups = newGroups, !.published = TRUE,
                                     !.handled = <<>>, !.ensured = "",
                                     !.result = "ok"])
       IN /\ faceGroups' = newGroups
          /\ error' = NoError
          /\ loading' = FALSE
          /\ flows' = [flows EXCEPT ![p] = h]
          /\ uploading' = UploadingAfter(f, h)
          /\ uploadProgress' = UploadProgressAfter(f, h)
    /\ UNCHANGED <<strategy, props, browser, world, storage, collectionExists, collection, images,
                   allFaceRecords, deleting, dels>>

----------------------------------------------------------------------------
(* handleFileChange: one file is chosen *)

HandleFileChange(u) ==
    /\ u \in 1 .. MaxUploads
    /\ flows[u].pc = "idle"
    /\ flows[u - 1].pc # "idle"
    /\ MainView
    /\ browser.userEmail
    /\ uploading' = TRUE
    /\ \E n \in 1 .. MaxFiles :
          flows' = [flows EXCEPT ![u].pc = "put", ![u].stale = images,
                                 ![u].eventId = props.eventId,
                                 ![u].selectedEvent = props.selectedEvent,
                                 ![u].loaded = [i \in 1 .. n |-> 0]]
    /\ UNCHANGED <<strategy, props, browser, world, storage, collectionExists, collection,
                   images, faceGroups, allFaceRecords, deleting, loading, error,
                   uploadProgress, dels>>

\* files are chosen without a stored userEmail: the handler throws before its
\* try block, nothing is set
HandleFileChangeRejected(u) ==
    /\ u \in 1 .. MaxUploads
    /\ flows[u].pc = "idle"
    /\ flows[u - 1].pc # "idle"
    /\ MainView
    /\ ~browser.userEmail
    /\ flows' = [flows EXCEPT ![u].pc = "done", ![u].result = "AuthenticationRequired"]
    /\ UNCHANGED <<strategy, props, browser, world, storage, collectionExists, collection,
                   images, faceGroups, allFaceRecords, deleting, loading, error,
                   uploading, uploadProgress, dels>>

\* httpUploadProgress of the i-th file of the batch, with or without a total
HttpUploadProgress(u, i, total) ==
    /\ flows[u].pc = "put"
    /\ i \in DOMAIN flows[u].loaded
    /\ flows[u].loaded[i] < FileSize
    /\ flows' = [flows EXCEPT ![u].loaded[i] = @ + 1]
    /\ uploadProgress' = Percentage(flows[u].loaded[i] + 1, total)
    /\ UNCHANGED <<strategy, props, browser, world, storage, collectionExists, collection,
                   images, faceGroups, allFaceRecords, deleting, loading, error,
                   uploading, dels>>

\* upload.done() resolves for every file; fetchEventImages is called and awaits
\* the listing
UploadOk(u) ==
    /\ flows[u].pc = "put"
    /\ storage' = [storage EXCEPT ![UploadPrefix(flows[u])] =
                       @ \cup {UploadKeys[u]}
                         \cup (IF Len(flows[u].loaded) > 1 THEN {UnlistedKeys[u]} ELSE {})]
    /\ flows' = [flows EXCEPT ![u].pc = "list", ![u].loaded = <<>>]
    /\ UNCHANGED <<strategy, props, browser, world, collectionExists, collection, images,
                   faceGroups, allFaceRecords, deleting, loading, error, uploading,
                   uploadProgress, dels>>

\* upload.done() rejects: the catch block sets the error, finally resets uploading
UploadFail(u) ==
    /\ flows[u].pc = "put"
    /\ error' = "Upload failed"
    /\ uploading' = FALSE
    /\ uploadProgress' = 0
    /\ flows' = [flows EXCEPT ![u].pc = "done", ![u].result = "StorageError",
                              ![u].loaded = <<>>]
    /\ UNCHANGED <<strategy, props, browser, world, storage, collectionExists, collection,
                   images, faceGroups, allFaceRecords, deleting, loading, dels>>

----------------------------------------------------------------------------
(* handleDelete *)

\* handleDelete(image) up to its await: the key is marked, the delete is sent
HandleDelete(image) ==
    /\ Len(dels) < MaxDeletes
    /\ MainView
    /\ deleting' = Append(deleting, image.key)
    /\ dels' = Append(dels, [key |-> image.key, pc |-> "inflight"])
    /\ UNCHANGED <<strategy, props, browser, world, storage, collectionExists, collection, images,
                   faceGroups, allFaceRecords, loading, error, uploading, uploadProgress, flows>>

\* what the handler does to the React state once the storage delete has succeeded
AfterDeleteOk(key) ==
    /\ images' = RemoveImage(images, key)
    /\ faceGroups' = IF strategy = "A" THEN RetractFromGroupsA(faceGroups, key)
                     ELSE RetractFromGroupsB(faceGroups, key)
    /\ allFaceRecords' = IF strategy = "A" THEN RemoveFaceRecords(allFaceRecords, key)
                         ELSE allFaceRecords
    /\ deleting' = RemoveKey(deleting, key)

\* a handler that removes the image although the storage delete has failed
AfterDeleteFailRetracts(key) ==
    /\ images' = RemoveImage(images, key)
    /\ faceGroups' = [g \in DOMAIN faceGroups |->
                         SelectSeq(faceGroups[g], LAMBDA m :
                             (IF strategy = "A" THEN m.image.key ELSE m.key) # key)]
    /\ allFaceRecords' = allFaceRecords
    /\ deleting' = RemoveKey(deleting, key)

\* what the handler does to the React state once the storage delete has failed
AfterDeleteFail(key) ==
    /\ deleting' = RemoveKey(deleting, key)
    /\ UNCHANGED <<images, faceGroups, allFaceRecords>>

DeleteObjectOk(d) ==
    /\ d \in DOMAIN dels
    /\ dels[d].pc = "inflight"
    /\ storage' = [e \in EventIds |-> storage[e] \ {dels[d].key}]
    /\ AfterDeleteOk(dels[d].key)
    /\ dels' = [dels EXCEPT ![d].pc = "ok"]
    /\ UNCHANGED <<strategy, props, browser, world, collectionExists, collection, loading, error,
                   uploading, uploadProgress, flows>>

DeleteObjectFail(d) ==
    /\ d \in DOMAIN dels
    /\ dels[d].pc = "inflight"
    /\ AfterDeleteFail(dels[d].key)
    /\ dels' = [dels EXCEPT ![d].pc = "failed"]
    /\ UNCHANGED <<strategy, props, browser, world, storage, collectionExists, collection, loading,
                   error, uploading, uploadProgress, flows>>

----------------------------------------------------------------------------

Keys == Range(KeyOrder)
FaceIds == UNION {Range(FacesIn(k)) : k \in Keys}

\* the grouping pass of a flow: ensureCollection and detectAndGroupFaces
Grouping ==
    \/ \E p \in FlowIds : EnsureListOk(p)
    \/ \E p \in FlowIds : EnsureListFail(p)
    \/ \E p \in FlowIds : EnsureCreateOk(p)
    \/ \E p \in FlowIds : EnsureCreateFail(p)
    \/ \E p \in FlowIds, k \in Keys : SearchByImageOk(p, k)
    \/ \E p \in FlowIds, k \in Keys : SearchByImageFail(p, k)
    \/ \E p \in FlowIds, k \in Keys : IndexImageOk(p, k)
    \/ \E p \in FlowIds, k \in Keys : IndexImageFail(p, k)
    \/ \E p \in FlowIds : PublishB(p)
    \/ \E p \in FlowIds, k \in Keys : IndexFacesOk(p, k)
    \/ \E p \in FlowIds, k \in Keys : IndexFacesFail(p, k)
    \/ \E p \in FlowIds : StartPhase2(p)
    \/ \E p \in FlowIds, x \in FaceIds : SearchFacesOk(p, x)
    \/ \E p \in FlowIds, x \in FaceIds : SearchFacesFail(p, x)
    \/ \E p \in FlowIds : PublishA(p)

Fetching ==
    \/ \E p \in FlowIds : FetchListOk(p)
    \/ \E p \in FlowIds : FetchListFail(p)

Uploading ==
    \/ \E u \in FlowIds : HandleFileChange(u)
    \/ \E u \in FlowIds : UploadOk(u)
    \/ \E u \in FlowIds : UploadFail(u)
    \/ \E u \in FlowIds, i \in 1 .. MaxFiles, total \in {0, FileSize} :
          HttpUploadProgress(u, i, total)

Rejecting ==
    \E u \in FlowIds : HandleFileChangeRejected(u)

Deleting ==
    \/ \E i \in DOMAIN images : HandleDelete(images[i])
    \/ \E d \in 1 .. MaxDeletes : DeleteObjectOk(d)
    \/ \E d \in 1 .. MaxDeletes : DeleteObjectFail(d)

Reloading ==
    \E next \in PropsValues : PropsChange(next)

Overlapping ==
    \E next \in PropsValues : PropsChangeWhileLoading(next)

\* the gallery with its load, uploads and deletes, on one stored image
Next == Fetching \/ Grouping \/ Uploading \/ Deleting
Spec == Init /\ [][Next]_vars

\* the load at mount alone, on three stored images
NextLoad == Fetching \/ Grouping
SpecLoad == InitLoad /\ [][NextLoad]_vars

\* the load at mount followed by deletes, on three stored images
NextDelete == Fetching \/ Grouping \/ Deleting
SpecDelete == InitDelete /\ [][NextDelete]_vars

\* the load at mount and file choices in a browser without a stored userEmail
NextAuth == Fetching \/ Grouping \/ Rejecting
SpecAuth == InitAuth /\ [][NextAuth]_vars

\* the load at mount and uploads, whatever selectedEvent is supplied
NextSelected == Fetching \/ Grouping \/ Uploading
SpecSelected == InitSelected /\ [][NextSelected]_vars

\* the load at mount and a second load that the props start at any moment
NextOverlap == Fetching \/ Grouping \/ Reloading \/ Overlapping
SpecOverlap == InitOverlap /\ [][NextOverlap]_vars

\* the load at mount followed by a reload when the props have changed
NextReload == Fetching \/ Grouping \/ Reloading
SpecReload == InitReload /\ [][NextReload]_vars

\* a storage or recognition call of flow p settles and the handler goes on
SettleOf(p) == (Fetching \/ Grouping) /\ flows'[p] # flows[p]

\* every call that is out eventually settles, with a result or an error; the
\* props may change or not
Settling == \A p \in FlowIds : WF_vars(SettleOf(p))

\* the load at mount and a reload, on two stored images or on none, every call
\* settling eventually
NextTerminates == Fetching \/ Grouping \/ Reloading
SpecTerminates == InitTerminates /\ [][NextTerminates]_vars /\ Settling

----------------------------------------------------------------------------
(* Vocabulary of the properties *)

\* no fetch, grouping or upload is running and no delete is in flight
Quiescent ==
    /\ \A p \in FlowIds : flows[p].pc \in {"idle", "done"}
    /\ \A d \in DOMAIN dels : dels[d].pc # "inflight"

ImageKeys == {images[i].key : i \in DOMAIN images}

\* the key of a group member: an image (strategy B) or a face record (strategy A)
MemberKey(m) == IF strategy = "A" THEN m.image.key ELSE m.key

\* the places (group, position) where an image is a member of a group
PlacesInGroups(groups, key) ==
    {<<g, j>> \in UNION {{g} \X DOMAIN groups[g] : g \in DOMAIN groups} :
        MemberKey(groups[g][j]) = key}

GroupsHolding(groups, key) == {pl[1] : pl \in PlacesInGroups(groups, key)}

\* the image is shown in the "Other Images" list
InOtherImages(key) == \E j \in DOMAIN OtherImages : OtherImages[j].key = key

----------------------------------------------------------------------------
(* C1: strategy B. Once the load has completed and no handler is running,  *)
(* every image of the image set is shown in exactly one place: as a member *)
(* of exactly one group, or in the Other Images list, never in both.       *)
C1_ExactlyOnePlace ==
    (strategy = "B" /\ flows[0].pc = "done" /\ Quiescent) =>
        \A key \in ImageKeys :
            \/ Cardinality(PlacesInGroups(faceGroups, key)) = 1 /\ ~InOtherImages(key)
            \/ Cardinality(PlacesInGroups(faceGroups, key)) = 0 /\ InOtherImages(key)

\* the faces two images or face records are compared by match above the threshold
Matching(x, y) == x # y /\ Similarity(x, y) >= FaceMatchThreshold

\* the groups of the published partition that hold a face record of this face
GroupsOfFace(faceId) ==
    {g \in DOMAIN faceGroups : \E j \in DOMAIN faceGroups[g] : faceGroups[g][j].faceId = faceId}

\* the face ids collected in Phase 1 of a flow
PassFaces(f) == {f.temp[i].faceId : i \in DOMAIN f.temp}

\* new is old restricted to the positions in stay, in their order
Kept(old, new, stay) ==
    /\ Len(new) = Cardinality(stay)
    /\ \A j \in DOMAIN new :
          new[j] = old[CHOOSE i \in stay : Cardinality({h \in stay : h <= i}) = j]

\* the positions of a list of images / of group members that are not of this key
OtherImagesAt(imgs, key) == {i \in DOMAIN imgs : imgs[i].key # key}
OtherMembersAt(members, key) == {i \in DOMAIN members : MemberKey(members[i]) # key}

\* a step in which the storage delete of call d is confirmed / is refused
DeleteConfirmed(d) == d \in DOMAIN dels /\ dels[d].pc = "inflight" /\ dels'[d].pc = "ok"
DeleteRefused(d) == d \in DOMAIN dels /\ dels[d].pc = "inflight" /\ dels'[d].pc = "failed"
\* a step in which handleDelete is called (call d is issued)
DeleteRequested(d) == d \notin DOMAIN dels /\ d \in DOMAIN dels'

----------------------------------------------------------------------------
(* C2: strategy A. When a grouping pass has completed, every face record   *)
(* collected in Phase 1 is a member of exactly one group of the published  *)
(* partition, at one position, the groups hold nothing else, and so every  *)
(* image with a collected face record is in some group.                    *)
C2_FaceRecordsGroupedOnce ==
    \A p \in FlowIds :
        (strategy = "A" /\ flows[p].published) =>
            /\ \A i \in DOMAIN flows[p].temp :
                  /\ Cardinality({pl \in PlacesInGroups(faceGroups, flows[p].temp[i].image.key) :
                                     faceGroups[pl[1]][pl[2]] = flows[p].temp[i]}) = 1
                  /\ GroupsHolding(faceGroups, flows[p].temp[i].image.key) # {}
            /\ \A g \in DOMAIN faceGroups :
                  Range(faceGroups[g]) \subseteq Range(flows[p].temp)

\* a pass over three images has published two or more groups, one of them with
\* several face records, although a search failed
C2_Witness ==
    /\ strategy = "A"
    /\ flows[0].published
    /\ Len(flows[0].temp) >= 3
    /\ \E x \in DOMAIN flows[0].fsrch : flows[0].fsrch[x] = "failed"
    /\ Cardinality(DOMAIN faceGroups) >= 2
    /\ \E g \in DOMAIN faceGroups : Len(faceGroups[g]) >= 2

----------------------------------------------------------------------------
(* C3: both strategies. A failed index or search call does not stop the    *)
(* pass: a flow whose listing returned images never gets stuck, ends with  *)
(* a published partition, and that partition holds every face of every     *)
(* image whose index call succeeded (A) and every image of the pass (B).   *)
C3_FailureDoesNotAbort ==
    \A p \in FlowIds :
        /\ flows[p].pc \notin {"idle", "done"} => ENABLED NextLoad
        /\ (flows[p].pc = "done" /\ flows[p].passImages # <<>>) =>
              /\ flows[p].published
              /\ strategy = "A" =>
                    \A k \in DOMAIN flows[p].idx :
                        flows[p].idx[k] = "ok" =>
                            \A i \in DOMAIN FacesIn(k) :
                                \E g \in GroupsOfFace(FacesIn(k)[i]) :
                                    g \in GroupsHolding(faceGroups, k)
              /\ strategy = "B" =>
                    \A k \in PassKeys(flows[p]) : GroupsHolding(faceGroups, k) # {}

\* a pass in which an index call failed and a search call failed has published
\* a partition that holds the other images
C3_Witness ==
    /\ flows[0].pc = "done"
    /\ flows[0].published
    /\ \E k \in DOMAIN flows[0].idx : flows[0].idx[k] = "failed"
    /\ \E k \in DOMAIN flows[0].idx : flows[0].idx[k] = "ok"
    /\ \/ \E x \in DOMAIN flows[0].fsrch : flows[0].fsrch[x] = "failed"
       \/ \E k \in DOMAIN flows[0].srch : flows[0].srch[k] = "failed"
    /\ Cardinality(DOMAIN faceGroups) >= 2

----------------------------------------------------------------------------
(* C4: both strategies. The step in which a storage delete is confirmed    *)
(* removes the image from the image set, from the members of every group   *)
(* and (A) its face records from allFaceRecords; nothing else is removed   *)
(* and what remains keeps its order.                                       *)
C4_DeleteRetracts ==
    [][\A d \in 1 .. MaxDeletes :
          DeleteConfirmed(d) =>
              /\ Kept(images, images', OtherImagesAt(images, dels[d].key))
              /\ DOMAIN faceGroups' \subseteq DOMAIN faceGroups
              /\ \A g \in DOMAIN faceGroups :
                    IF g \in DOMAIN faceGroups'
                    THEN Kept(faceGroups[g], faceGroups'[g],
                              OtherMembersAt(faceGroups[g], dels[d].key))
                    ELSE OtherMembersAt(faceGroups[g], dels[d].key) = {}
              /\ strategy = "A" =>
                    Kept(allFaceRecords, allFaceRecords',
                         OtherMembersAt(allFaceRecords, dels[d].key))]_vars

\* a delete was confirmed, its image is gone, and a group it was retracted from
\* still has two members
C4_Witness ==
    \E d \in DOMAIN dels :
        /\ dels[d].pc = "ok"
        /\ dels[d].key \notin ImageKeys
        /\ Len(images) = 2
        /\ \E g \in DOMAIN faceGroups : Len(faceGroups[g]) >= 2

----------------------------------------------------------------------------
(* C5: both strategies. The step in which a storage delete is confirmed    *)
(* leaves no group with zero members, and every group that keeps a member  *)
(* stays in the partition.                                                 *)
C5_EmptyGroupsPruned ==
    [][\A d \in 1 .. MaxDeletes :
          DeleteConfirmed(d) =>
              /\ \A g \in DOMAIN faceGroups' : Len(faceGroups'[g]) > 0
              /\ \A g \in DOMAIN faceGroups :
                    (\E j \in DOMAIN faceGroups[g] :
                        MemberKey(faceGroups[g][j]) # dels[d].key)
                    => g \in DOMAIN faceGroups']_vars

----------------------------------------------------------------------------
(* C6: strategy A, every index and search call succeeding. As claimed:     *)
(* faces that match each other end in the same group and a face matching   *)
(* no other face is alone in its group, whatever the order of the search   *)
(* responses.                                                              *)
AllCallsSucceeded(f) ==
    /\ \A k \in DOMAIN f.idx : f.idx[k] = "ok"
    /\ \A x \in DOMAIN f.fsrch : f.fsrch[x] = "ok"
    /\ \A k \in DOMAIN f.srch : f.srch[k] = "ok"

FacesGroupedByMatch(f) ==
    \A x \in PassFaces(f) :
        /\ \A y \in PassFaces(f) : Matching(x, y) => GroupsOfFace(x) = GroupsOfFace(y)
        /\ (\A y \in PassFaces(f) : ~Matching(x, y)) =>
              \A g \in GroupsOfFace(x) : Len(faceGroups[g]) = 1

C6_MatchingFacesShareGroup ==
    (strategy = "A" /\ flows[0].published /\ AllCallsSucceeded(flows[0]))
        => FacesGroupedByMatch(flows[0])

\* matching is transitive among the faces of the service
TransitiveMatching ==
    \A x, y, z \in FaceIds : (Matching(x, y) /\ Matching(y, z) /\ x # z) => Matching(x, z)

\* no search response is cut by MaxFaces
NoResponseCut ==
    \A c \in EventIds, x \in FaceIds :
        Cardinality({e \in collection[c] : Matching(x, e.face)}) <= MaxFacesA

(* C6 as amended: the same, provided matching is transitive among the      *)
(* faces and no search response is cut by the cap of 5 results.            *)
C6_TransitiveMatchesShareGroup ==
    (strategy = "A" /\ flows[0].published /\ AllCallsSucceeded(flows[0])
        /\ TransitiveMatching /\ NoResponseCut)
        => FacesGroupedByMatch(flows[0])

\* all calls succeeded on three images of one person: their first faces share a
\* group and the second face of image C is alone
C6_Witness ==
    /\ strategy = "A"
    /\ flows[0].published
    /\ AllCallsSucceeded(flows[0])
    /\ world = StoredPairs
    /\ Len(flows[0].temp) = 4
    /\ GroupsOfFace("a") = GroupsOfFace("b")
    /\ GroupsOfFace("b") = GroupsOfFace("c")
    /\ GroupsOfFace("c2") # GroupsOfFace("c")

----------------------------------------------------------------------------
(* C7: strategy B, every call succeeding. Two images of the pass whose     *)
(* faces match end in the same group and an image matching no other image  *)
(* ends in a group of its own, for every interleaving, also on the first   *)
(* pass against an empty collection.                                       *)
ImagesMatch(k1, k2) ==
    /\ k1 # k2
    /\ \/ \E x \in Range(FacesIn(k2)) : Matching(Head(FacesIn(k1)), x)
       \/ \E x \in Range(FacesIn(k1)) : Matching(Head(FacesIn(k2)), x)

C7_MatchingImagesShareGroup ==
    (strategy = "B" /\ flows[0].published /\ AllCallsSucceeded(flows[0])) =>
        \A k1 \in PassKeys(flows[0]) :
            /\ \A k2 \in PassKeys(flows[0]) :
                  ImagesMatch(k1, k2) =>
                      GroupsHolding(faceGroups, k1) = GroupsHolding(faceGroups, k2)
            /\ (\A k2 \in PassKeys(flows[0]) : ~ImagesMatch(k1, k2)) =>
                  \A g \in GroupsHolding(faceGroups, k1) : Len(faceGroups[g]) = 1

----------------------------------------------------------------------------
(* C8: both strategies. When an upload flow has completed successfully     *)
(* (no delete was requested meanwhile), the uploaded image is in the image *)
(* set and the published partition is the result of a grouping pass over   *)
(* the whole refreshed image set: every image is in exactly one place.     *)
C8_UploadRegroupsAll ==
    \A u \in 1 .. MaxUploads :
        (flows[u].pc = "done" /\ flows[u].result = "ok" /\ Quiescent /\ dels = <<>>) =>
            /\ UploadKeys[u] \in ImageKeys
            /\ flows[u].passImages = images
            /\ faceGroups = flows[u].newGroups
            /\ strategy = "B" =>
                  \A key \in ImageKeys :
                      Cardinality(PlacesInGroups(faceGroups, key))
                          + (IF InOtherImages(key) THEN 1 ELSE 0) = 1

----------------------------------------------------------------------------
(* C9 as claimed: after a delete whose storage call failed, the image is   *)
(* absent from the image set and from every group (the removal was applied *)
(* on request and is not rolled back).                                     *)
C9_OptimisticRemoval ==
    \A d \in DOMAIN dels :
        dels[d].pc = "failed" =>
            /\ dels[d].key \notin ImageKeys
            /\ GroupsHolding(faceGroups, dels[d].key) = {}

(* C9 as amended: the in-memory removal is applied only when the storage   *)
(* delete is confirmed. Neither the request nor a failed storage call      *)
(* changes the image set, the groups or the face records.                  *)
C9_RemovalOnlyOnConfirmation ==
    [][\A d \in 1 .. MaxDeletes :
          (DeleteRequested(d) \/ DeleteRefused(d)) =>
              /\ images' = images
              /\ faceGroups' = faceGroups
              /\ allFaceRecords' = allFaceRecords]_vars

\* a delete has failed and its image is still in the image set and in a group
C9_Witness ==
    \E d \in DOMAIN dels :
        /\ dels[d].pc = "failed"
        /\ dels[d].key \in ImageKeys
        /\ GroupsHolding(faceGroups, dels[d].key) # {}
        /\ \A e \in DOMAIN dels : dels[e].key = dels[d].key => dels[e].pc = "failed"

----------------------------------------------------------------------------
(* C10: a key is in the deleting list exactly while a storage delete call  *)
(* for that image is in flight, also when two delete calls for the same    *)
(* image overlap.                                                          *)
C10_DeletingWhileInFlight ==
    \A k \in Keys :
        (k \in Range(deleting)) <=>
            (\E d \in DOMAIN dels : dels[d].key = k /\ dels[d].pc = "inflight")

----------------------------------------------------------------------------
\* fetchEventImages of this flow has been called and has not returned
FetchRunning(f) == f.pc \notin {"idle", "put", "done"} /\ ~f.second

(* C11: while a load (a call of fetchEventImages, at mount or from an      *)
(* upload) is running, the loading status is set and the published         *)
(* partition does not change; it changes only in the step that completes   *)
(* the pass.                                                               *)
C11_LoadingWhileFetching ==
    [][\A p \in FlowIds :
          FetchRunning(flows[p]) =>
              /\ loading
              /\ FetchRunning(flows'[p]) => faceGroups' = faceGroups]_vars

----------------------------------------------------------------------------
\* the keys the listing of a flow's event returns
ListedKeys(f) == storage[EventToUse(f)] \cap Range(KeyOrder)

(* C12: after a reload has completed (its listing did not fail), the image *)
(* set is exactly the set of images listed for the event and the partition *)
(* is the one its grouping pass built: empty when nothing was listed.      *)
C12_ReloadReplacesImageSet ==
    (flows[ReloadFlow].pc = "done" /\ flows[ReloadFlow].result \in {"ok", "empty"}) =>
        /\ ImageKeys = ListedKeys(flows[ReloadFlow])
        /\ faceGroups = flows[ReloadFlow].newGroups

----------------------------------------------------------------------------
\* the groups under which the gallery of strategy A renders the image
GroupsShowing(key) ==
    {g \in DOMAIN faceGroups :
        \E j \in DOMAIN ShownInGroup(g) : ShownInGroup(g)[j].key = key}

(* C13: strategy A. When the gallery is displayed and nothing is running,  *)
(* every image of the image set is presented: under some group (the        *)
(* component of strategy A renders no list of ungrouped images).           *)
C13_EveryImagePresented ==
    (strategy = "A" /\ MainView /\ Quiescent) =>
        \A key \in ImageKeys : GroupsShowing(key) # {}

----------------------------------------------------------------------------
(* C14 as claimed: strategy A. Every image of the image set is rendered    *)
(* under at most one group.                                                *)
C14_ImageInOneGroup ==
    strategy = "A" => \A key \in ImageKeys : Cardinality(GroupsShowing(key)) <= 1

(* C14 as amended: strategy A. Within a group every image is rendered at   *)
(* most once, and an image is rendered under at most as many groups as     *)
(* faces were detected in it.                                              *)
C14_ImageOncePerGroup ==
    strategy = "A" =>
        /\ \A g \in DOMAIN faceGroups :
              \A i, j \in DOMAIN ShownInGroup(g) :
                  ShownInGroup(g)[i].key = ShownInGroup(g)[j].key => i = j
        /\ \A key \in ImageKeys :
              Cardinality(GroupsShowing(key)) <= Len(FacesIn(key))

\* a group holds both face records of image C and a face record of image A,
\* and renders two images
C14_Witness ==
    /\ strategy = "A"
    /\ \E g \in DOMAIN faceGroups :
          /\ Len(faceGroups[g]) = 3
          /\ Len(ShownInGroup(g)) = 2

----------------------------------------------------------------------------
\* which images a partition puts together: the set of the groups' image sets
ImageGrouping(groups) ==
    {{MemberKey(groups[g][j]) : j \in DOMAIN groups[g]} : g \in DOMAIN groups}

(* C15: when the grouping pass is run a second time on the same image set  *)
(* against the same collection (a reload of the same event, nothing stored *)
(* or deleted in between, every call of both passes succeeding), the       *)
(* second partition groups the images as the first did.                    *)
C15_SecondPassSameGrouping ==
    (/\ flows[0].published /\ AllCallsSucceeded(flows[0])
     /\ flows[ReloadFlow].published /\ AllCallsSucceeded(flows[ReloadFlow]))
        => ImageGrouping(flows[ReloadFlow].newGroups) = ImageGrouping(flows[0].newGroups)

----------------------------------------------------------------------------
(* C16: when the storage call of a delete or of an upload fails, the error *)
(* state is set in that step, and the call is not issued again: a failed   *)
(* delete stays failed and a failed upload flow does not upload again.     *)
C16_StorageFailureSurfaced ==
    [][/\ \A d \in 1 .. MaxDeletes :
             /\ DeleteRefused(d) => error' # NoError
             /\ (d \in DOMAIN dels /\ dels[d].pc = "failed") => dels'[d].pc = "failed"
       /\ \A u \in 1 .. MaxUploads :
             /\ (flows[u].pc = "put" /\ flows'[u].result = "StorageError")
                   => error' # NoError
             /\ flows[u].pc = "done" => flows'[u].pc = "done"]_vars

----------------------------------------------------------------------------
\* the step in which fetchEventImages of flow p returns with outcome r
FetchReturns(p, r) == flows[p].result = "" /\ flows'[p].result = r

(* C17: outcome of the listing in a load. If an image was listed, the      *)
(* grouping pass has run over the listed images and the load ends with the *)
(* error state cleared; if nothing was listed and the listing failed, the  *)
(* failure's message becomes the error state; if nothing was listed and    *)
(* nothing failed, the error state is 'No images found for this event.'.   *)
(* In the two zero-image outcomes no pass was started and the partition is *)
(* left as it was. Every outcome ends the loading status.                  *)
C17_ListingOutcome ==
    [][\A p \in {0, ReloadFlow} :
          /\ FetchReturns(p, "ok") =>
                /\ flows[p].passImages # <<>>
                /\ flows'[p].published
                /\ faceGroups' = flows'[p].newGroups
                /\ error' = NoError
                /\ ~loading'
          /\ FetchReturns(p, "StorageError") =>
                /\ flows[p].passImages = <<>> /\ flows'[p].passImages = <<>>
                /\ faceGroups' = faceGroups
                /\ error' = "ListObjects failed"
                /\ ~loading'
          /\ FetchReturns(p, "empty") =>
                /\ flows[p].passImages = <<>> /\ flows'[p].passImages = <<>>
                /\ faceGroups' = faceGroups
                /\ error' = "No images found for this event."
                /\ ~loading']_vars

\* the load at mount listed images and grouped them; a reload listed nothing
\* and ended with the 'No images found' message
C17_Witness ==
    /\ flows[0].result = "ok"
    /\ flows[0].published
    /\ flows[ReloadFlow].pc = "done"
    /\ flows[ReloadFlow].result = "empty"
    /\ error = "No images found for this event."
    /\ ~loading

----------------------------------------------------------------------------
(* C18: without a stored userEmail, (1) entering through the upload-selfie *)
(* page aborts the flow: the authentication message is and remains the     *)
(* error state, no listing or recognition call is in flight or has had an  *)
(* effect, the image set and the partition stay empty; (2) a file choice   *)
(* rejected by handleFileChange leaves a user-visible message.             *)
C18_AuthenticationAborts ==
    ~browser.userEmail =>
        /\ browser.path = "upload-selfie" =>
              /\ error = AuthMessage
              /\ \A p \in FlowIds : ~FetchRunning(flows[p])
              /\ images = <<>> /\ faceGroups = EmptyFn
              /\ \A c \in EventIds : collection[c] = {} /\ ~collectionExists[c]
        /\ \A u \in 1 .. MaxUploads :
              flows[u].result = "AuthenticationRequired" => error # NoError

----------------------------------------------------------------------------
\* a step in which a progress event of upload flow u is handled
ProgressEvent(u) ==
    /\ flows[u].pc = "put" /\ flows'[u].pc = "put"
    /\ flows'[u].loaded # flows[u].loaded

(* C19: every progress event of an upload batch sets the upload progress   *)
(* to an integer in 0..100 that is not below the value before the event.   *)
C19_ProgressMonotonic ==
    [][\A u \in 1 .. MaxUploads :
          ProgressEvent(u) =>
              /\ uploadProgress' \in 0 .. 100
              /\ uploadProgress' >= uploadProgress]_vars

----------------------------------------------------------------------------
(* C20: the error page is shown only when there is no usable image set:    *)
(* whenever the error state is set, the image set is empty.                *)
C20_ErrorOnlyWithoutImages ==
    error # NoError => images = <<>>

----------------------------------------------------------------------------
\* the keys stored under the prefix of event e that the filter of the listing keeps
ImageKeysOf(e) == storage[e] \cap Range(KeyOrder)

\* flow p has issued recognition calls (its grouping pass has started)
PassStarted(p) == flows[p].passImages # <<>>

\* upload flow u has written its files
Uploaded(u) == flows[u].kind = "upload" /\ flows[u].pc \notin {"idle", "put"}
                  /\ flows[u].result \notin {"StorageError", "AuthenticationRequired"}

(* C21: one collection per event. The collection a grouping pass addresses *)
(* is the one named after the event whose images the pass was given, so a  *)
(* collection holds no face of an image stored under another event's       *)
(* prefix; and an upload writes under the prefix of the event the flow     *)
(* lists. This is claimed also for a selectedEvent different from eventId. *)
C21_OneCollectionPerEvent ==
    /\ \A p \in FlowIds :
          PassStarted(p) => CollectionId(flows[p]) = EventToUse(flows[p])
    /\ \A c \in EventIds :
          \A e \in EventIds \ {c} :
              \A r \in collection[c], k \in ImageKeysOf(e) :
                  r.face \notin Range(FacesIn(k))
    /\ \A u \in 1 .. MaxUploads :
          Uploaded(u) =>
              /\ UploadPrefix(flows[u]) = EventToUse(flows[u])
              /\ \A e \in EventIds :
                    UploadKeys[u] \in storage[e] => e = EventToUse(flows[u])

----------------------------------------------------------------------------
\* a step in which the search of face x in the pass of flow p answers
SearchAnswered(p, x) ==
    /\ x \in DOMAIN flows[p].fsrch
    /\ flows[p].fsrch[x] = "pending"
    /\ flows'[p].fsrch[x] = "ok"

\* a step in which the search of face x in the pass of flow p throws
SearchThrew(p, x) ==
    /\ x \in DOMAIN flows[p].fsrch
    /\ flows[p].fsrch[x] = "pending"
    /\ flows'[p].fsrch[x] = "failed"

\* the positions of a search response whose face has a group in the map
ResolvedAt(r, map) == {i \in DOMAIN r : r[i].face \in DOMAIN map}

\* the least number of a non-empty set of numbers
Least(S) == CHOOSE i \in S : \A j \in S : i <= j

(* C22: strategy A tie-break. When the response to a face's search holds a *)
(* matched face that has a group at the moment the response is handled,    *)
(* the face gets the group of the first such matched face in the order of  *)
(* the response (earlier matches without a group are skipped), no group id *)
(* is allocated, and no other face's group changes.                        *)
C22_AdoptsFirstResolvedMatch ==
    [][\A p \in FlowIds, x \in FaceIds :
          SearchAnswered(p, x) =>
              LET r == flows'[p].resp[x]
                  before == flows[p].faceIdToGroupId
                  after == flows'[p].faceIdToGroupId
              IN ResolvedAt(r, before) # {} =>
                    /\ after[x] = before[r[Least(ResolvedAt(r, before))].face]
                    /\ flows'[p].groupCount = flows[p].groupCount
                    /\ DOMAIN after = DOMAIN before \cup {x}
                    /\ \A y \in DOMAIN before : after[y] = before[y]]_vars

\* the response to b's search listed a before c; a had no group yet, c had one,
\* and b was given the group of c
C22_Witness ==
    /\ strategy = "A"
    /\ "b" \in DOMAIN flows[0].resp
    /\ Len(flows[0].resp["b"]) = 2
    /\ flows[0].resp["b"][1].face = "a"
    /\ flows[0].resp["b"][2].face = "c"
    /\ "a" \notin DOMAIN flows[0].faceIdToGroupId
    /\ {"b", "c"} \subseteq DOMAIN flows[0].faceIdToGroupId
    /\ flows[0].faceIdToGroupId["b"] = flows[0].faceIdToGroupId["c"]
    /\ flows[0].groupCount = 1

----------------------------------------------------------------------------
\* the group ids in use in a map from face ids to group ids
GroupIdsOf(map) == {map[y] : y \in DOMAIN map}

\* in the pass of flow f no search found anything: each threw or returned no match
NoSearchMatched(f) ==
    \A x \in DOMAIN f.fsrch :
        f.fsrch[x] = "failed" \/ (f.fsrch[x] = "ok" /\ f.resp[x] = <<>>)

\* the published partition of flow f is one single-member group per face record
OneGroupPerFaceRecord(f) ==
    /\ Cardinality(DOMAIN f.newGroups) = Len(f.temp)
    /\ \A g \in DOMAIN f.newGroups : Len(f.newGroups[g]) = 1

(* C23: strategy A new-group rule. A face whose search throws, returns no  *)
(* match, or returns only faces without a group at that moment gets a      *)
(* newly allocated group id: one that no face of the pass has so far, and  *)
(* no other face's group changes. Hence a pass in which every search threw *)
(* or returned nothing publishes one single-member group per face record.  *)
C23_NewGroupRule ==
    [][\A p \in FlowIds :
          /\ \A x \in FaceIds :
                LET before == flows[p].faceIdToGroupId
                    after == flows'[p].faceIdToGroupId
                IN (\/ SearchThrew(p, x)
                    \/ SearchAnswered(p, x)
                          /\ ResolvedAt(flows'[p].resp[x], before) = {})
                   => /\ DOMAIN after = DOMAIN before \cup {x}
                      /\ after[x] \notin GroupIdsOf(before)
                      /\ \A y \in DOMAIN before : after[y] = before[y]
          /\ (strategy = "A" /\ flows'[p].published /\ NoSearchMatched(flows'[p]))
                => OneGroupPerFaceRecord(flows'[p])]_vars

\* a pass over three images (four face records) in which one search threw and
\* the others returned nothing has published four single-member groups
C23_Witness ==
    /\ strategy = "A"
    /\ flows[0].published
    /\ Len(flows[0].temp) = 4
    /\ NoSearchMatched(flows[0])
    /\ Cardinality({x \in DOMAIN flows[0].fsrch : flows[0].fsrch[x] = "failed"}) = 1
    /\ Cardinality(DOMAIN faceGroups) = 4
    /\ \A g \in DOMAIN faceGroups : Len(faceGroups[g]) = 1

----------------------------------------------------------------------------
\* the faces a search response lists
FacesOf(r) == {r[i].face : i \in DOMAIN r}

\* face x has its group, and no other face of the pass has the same one
AloneInGroup(f, x) ==
    /\ x \in DOMAIN f.faceIdToGroupId
    /\ \A z \in DOMAIN f.faceIdToGroupId \ {x} :
          f.faceIdToGroupId[z] # f.faceIdToGroupId[x]

\* a step in which the response to the search of face y is handled by minting
MintsOnResponse(p, y) ==
    /\ SearchFacesOk(p, y)
    /\ flows'[p].groupCount = flows[p].groupCount + 1

MutualMatches(f, x, y) ==
    /\ x # y
    /\ {x, y} \subseteq DOMAIN f.fsrch
    /\ f.fsrch[x] = "ok" /\ f.fsrch[y] = "ok"
    /\ x \in FacesOf(f.resp[y])
    /\ y \in FacesOf(f.resp[x])

----------------------------------------------------------------------------
\* every ordering of a finite set, as a sequence
RECURSIVE Orderings(_)
Orderings(S) ==
    IF S = {} THEN {<<>>}
    ELSE UNION {{<<e>> \o t : t \in Orderings(S \ {e})} : e \in S}

\* tempFaceRecords when the index responses of the images arrive in this order
RECURSIVE CollectedFrom(_, _)
CollectedFrom(arrival, i) ==
    IF i > Len(arrival) THEN <<>>
    ELSE FaceRecordsOf(arrival[i]) \o CollectedFrom(arrival, i + 1)

\* the lists of face records Phase 1 of flow f can collect: one per order in
\* which the responses of its successful index calls can arrive
ArrivalOrders(f) ==
    {CollectedFrom(arrival, 1) :
        arrival \in Orderings({img \in Range(f.passImages) : f.idx[img.key] = "ok"})}

\* Phase 2 of flow f run again from an empty map: the callbacks of the faces
\* f.handled[i], i+1, ... run in this order on the responses f received
RECURSIVE ReplayCallbacks(_, _, _)
ReplayCallbacks(f, g, i) ==
    IF i > Len(f.handled) THEN g
    ELSE LET x == f.handled[i]
         IN ReplayCallbacks(f,
                IF f.fsrch[x] = "ok" THEN AssignGroup(g, x, f.resp[x])
                ELSE FallbackGroup(g, x),
                i + 1)

\* the partition the pass of flow f publishes if Phase 1 collects recs and the
\* searches bring the same responses, handled in the same order
PartitionFor(f, recs) ==
    LET g == ReplayCallbacks(f, [f EXCEPT !.temp = recs, !.faceIdToGroupId = EmptyFn,
                                          !.groupCount = 0], 1)
    IN BuildFaceGroups(recs, g.faceIdToGroupId, 1, EmptyFn)

\* the face ids of the members of a group
MemberFaces(members) == {members[j].faceId : j \in DOMAIN members}

\* the step in which the pass of flow p publishes its partition: its concurrent
\* part ends
Publishes(p) ==
    /\ flows[p].pc \in {"phase2", "pairs"}
    /\ flows'[p].pc \notin {"phase2", "pairs"}

(* C25: strategy A is commutative over face arrival order. With the search *)
(* responses and the order in which they are handled fixed, every order in *)
(* which the Phase 1 index responses can arrive leads to the same groups   *)
(* with the same faces; only the order of the members of a group (and of   *)
(* the groups) depends on it.                                              *)
C25_ArrivalOrderCommutes ==
    [][\A p \in FlowIds :
          (strategy = "A" /\ Publishes(p)) =>
              /\ flows[p].temp \in ArrivalOrders(flows[p])
              /\ \A recs \in ArrivalOrders(flows[p]) :
                    LET other == PartitionFor(flows[p], recs)
                    IN /\ DOMAIN other = DOMAIN faceGroups'
                       /\ \A g \in DOMAIN other :
                             MemberFaces(other[g]) = MemberFaces(faceGroups'[g])]_vars

\* a pass has published two groups, one with several faces, after the index
\* response of image C arrived first and that of image A last
C25_Witness ==
    /\ strategy = "A"
    /\ flows[0].published
    /\ Len(flows[0].temp) = 4
    /\ flows[0].temp[1].image.key = "C"
    /\ flows[0].temp[4].image.key = "A"
    /\ Cardinality(DOMAIN faceGroups) >= 2
    /\ \E g \in DOMAIN faceGroups : Len(faceGroups[g]) >= 2

----------------------------------------------------------------------------
\* every index call of the pass of flow f has been issued and has settled
IndexCallsSettled(f) ==
    /\ DOMAIN f.idx = PassKeys(f)
    /\ \A k \in PassKeys(f) : f.idx[k] \in {"ok", "failed"}

\* a search call has been issued for every collected face, and each has settled
FaceSearchesSettled(f) ==
    /\ DOMAIN f.fsrch = PassFaces(f)
    /\ \A x \in PassFaces(f) : f.fsrch[x] \in {"ok", "failed"}

\* the search call of every image of the pass has been issued and has settled
ImageSearchesSettled(f) ==
    /\ DOMAIN f.srch = PassKeys(f)
    /\ \A k \in PassKeys(f) : f.srch[k] \in {"ok", "failed"}

\* a step in which the pass of flow p issues its search calls (strategy A)
IssuesSearches(p) == flows[p].fsrch = EmptyFn /\ flows'[p].fsrch # EmptyFn

(* C26: batch barrier. Strategy A: the searches are issued only when every *)
(* index call of the pass has settled (with a response or a caught error), *)
(* and while a search is in flight no index call is; the partition is      *)
(* published only when every search has settled too. Strategy B: the       *)
(* partition is published only when the search and the index call of every *)
(* image have settled. The published partition is the one built then, and *)
(* apart from a confirmed delete nothing else changes the partition.       *)
C26_BatchBarrier ==
    [][\A p \in FlowIds :
          /\ (strategy = "A" /\ IssuesSearches(p)) => IndexCallsSettled(flows[p])
          /\ (strategy = "A" /\ flows'[p].fsrch # EmptyFn) => IndexCallsSettled(flows'[p])
          /\ (strategy = "A" /\ Publishes(p)) =>
                /\ IndexCallsSettled(flows[p])
                /\ FaceSearchesSettled(flows[p])
                /\ faceGroups' = BuildFaceGroups(flows[p].temp, flows[p].faceIdToGroupId,
                                                 1, EmptyFn)
          /\ (strategy = "B" /\ Publishes(p)) =>
                /\ ImageSearchesSettled(flows[p])
                /\ IndexCallsSettled(flows[p])
                /\ faceGroups' = BuildGroups(flows[p].passImages, flows[p].gid, 1, EmptyFn)
          /\ faceGroups' # faceGroups =>
                \/ \E q \in FlowIds : Publishes(q)
                \/ \E d \in 1 .. MaxDeletes : DeleteConfirmed(d)]_vars

\* strategy A: searches are in flight; every index call has settled, one with a
\* caught error, and nothing is published yet
C26_Witness ==
    /\ strategy = "A"
    /\ flows[0].pc = "phase2"
    /\ ~flows[0].published
    /\ \E x \in DOMAIN flows[0].fsrch : flows[0].fsrch[x] = "pending"
    /\ \E x \in DOMAIN flows[0].fsrch : flows[0].fsrch[x] = "failed"
    /\ IndexCallsSettled(flows[0])
    /\ \E k \in PassKeys(flows[0]) : flows[0].idx[k] = "failed"
    /\ faceGroups = EmptyFn

----------------------------------------------------------------------------
\* the partition the pass of flow f builds from the results it has
PartitionBuilt(f) ==
    IF strategy = "A" THEN BuildFaceGroups(f.temp, f.faceIdToGroupId, 1, EmptyFn)
    ELSE BuildGroups(f.passImages, f.gid, 1, EmptyFn)

\* flow p is between its call and its return
Running(p) == flows[p].pc \notin {"idle", "done"}

\* a step of flow p
StepOf(p) == NextOverlap /\ flows'[p] # flows[p]

(* C27: overlapping loads are unguarded. When a load starts while an       *)
(* earlier one is in flight, neither waits for the other nor is cancelled: *)
(* a running load can always take its next step, and each pass, when its   *)
(* calls have settled, publishes its own partition over whatever is there, *)
(* also when a load started later has already published. The partition     *)
(* left is the one of the pass that completed last.                        *)
C27_OverlappingLoadsUnguarded ==
    [][\A p \in {0, ReloadFlow} :
          /\ Running(p) => ENABLED StepOf(p)
          /\ Publishes(p) =>
                /\ faceGroups' = PartitionBuilt(flows[p])
                /\ faceGroups' = flows'[p].newGroups
                /\ flows'[p].pc = "done"]_vars

\* the load of event e2 started while the load of e1 was in flight; both have
\* completed; the images are those of e2, the partition is the one of e1
C27_Witness ==
    /\ flows[0].pc = "done" /\ flows[0].published
    /\ flows[ReloadFlow].pc = "done" /\ flows[ReloadFlow].published
    /\ EventToUse(flows[0]) = "e1"
    /\ EventToUse(flows[ReloadFlow]) = "e2"
    /\ images = flows[ReloadFlow].passImages
    /\ flows[0].newGroups # flows[ReloadFlow].newGroups
    /\ faceGroups = flows[0].newGroups
    /\ faceGroups # EmptyFn

----------------------------------------------------------------------------
\* a step in which the search of image k in the pass of flow p answers / throws
ImageSearchAnswered(p, k) ==
    /\ k \in DOMAIN flows[p].srch
    /\ flows[p].srch[k] = "pending"
    /\ flows'[p].srch[k] = "ok"
ImageSearchThrew(p, k) ==
    /\ k \in DOMAIN flows[p].srch
    /\ flows[p].srch[k] = "pending"
    /\ flows'[p].srch[k] = "failed"

\* the positions of a response whose match has an external tag other than key
AdoptableAt(r, key) == {i \in DOMAIN r : r[i].tag # "" /\ r[i].tag # key}

\* the group ids in use: the tags of the indexed faces and the ids the passes hold
GroupIdsInUse ==
    UNION {{e.tag : e \in collection[c]} : c \in EventIds}
        \cup UNION {GroupIdsOf(flows[q].gid) : q \in FlowIds}

(* C28: strategy B adoption rule. An image whose search returns a match    *)
(* with an external tag other than the image's key gets the tag of the     *)
(* first such match in the order of the response; an image whose search    *)
(* throws or returns no such match gets a group id that is not in use      *)
(* anywhere. The id is not empty, no other image's id changes, and in the  *)
(* published partition every image of the pass is in exactly the group     *)
(* named by its id.                                                        *)
C28_AdoptionRule ==
    [][\A p \in FlowIds :
          /\ \A k \in Keys :
                LET before == flows[p].gid
                    after == flows'[p].gid
                IN /\ ImageSearchAnswered(p, k) =>
                         LET r == flows'[p].resp[k]
                         IN /\ AdoptableAt(r, k) # {} => after[k] = r[Least(AdoptableAt(r, k))].tag
                            /\ AdoptableAt(r, k) = {} => after[k] \notin GroupIdsInUse
                   /\ ImageSearchThrew(p, k) => after[k] \notin GroupIdsInUse
                   /\ (ImageSearchAnswered(p, k) \/ ImageSearchThrew(p, k)) =>
                         /\ after[k] # ""
                         /\ DOMAIN after = DOMAIN before \cup {k}
                         /\ \A j \in DOMAIN before : after[j] = before[j]
          /\ (strategy = "B" /\ flows'[p].published) =>
                \A k \in PassKeys(flows'[p]) :
                    /\ k \in DOMAIN flows'[p].gid
                    /\ GroupsHolding(flows'[p].newGroups, k) = {flows'[p].gid[k]}
                    /\ Cardinality(PlacesInGroups(flows'[p].newGroups, k)) = 1]_vars

\* the response to B's search listed the face of A before the face of C, with
\* different tags, and B got the tag of A; another search threw; the partition
\* is published
C28_Witness ==
    /\ strategy = "B"
    /\ flows[0].published
    /\ "B" \in DOMAIN flows[0].resp
    /\ Len(flows[0].resp["B"]) = 2
    /\ flows[0].resp["B"][1].tag # flows[0].resp["B"][2].tag
    /\ flows[0].gid["B"] = flows[0].resp["B"][1].tag
    /\ flows[0].gid["B"] = flows[0].gid["A"]
    /\ \E k \in DOMAIN flows[0].srch : flows[0].srch[k] = "failed"
    /\ Cardinality(DOMAIN faceGroups) = 2

----------------------------------------------------------------------------
\* the state of the index call of image k in the pass of flow f: "none" when the
\* pass has no such image, "waiting" before the call is issued
IndexCall(f, k) == IF k \in DOMAIN f.idx THEN f.idx[k] ELSE "none"

\* the face records an IndexFaces call of image k with this tag adds
TaggedFaces(k, tag) == {[face |-> FacesIn(k)[i], tag |-> tag] : i \in DOMAIN FacesIn(k)}

(* C29: strategy B. In every pass the index call of an image is issued in  *)
(* the step in which the image's search settles, whether it answered (with *)
(* or without a match) or threw, and never again in that pass; a call that *)
(* succeeds adds the faces of the image under the image's resolved group   *)
(* id and nothing else; a call that fails changes neither a group id of    *)
(* the pass nor the collection; and at publication the index call of every *)
(* image of the pass has been issued and has settled.                      *)
C29_IndexAlwaysRuns ==
    [][strategy = "B" =>
          \A p \in FlowIds :
              /\ \A k \in Keys :
                    LET c == CollectionId(flows[p])
                    IN /\ (ImageSearchAnswered(p, k) \/ ImageSearchThrew(p, k)) =>
                             /\ IndexCall(flows[p], k) = "waiting"
                             /\ IndexCall(flows'[p], k) = "pending"
                       /\ (IndexCall(flows[p], k) # "pending"
                              /\ IndexCall(flows'[p], k) = "pending") =>
                             (ImageSearchAnswered(p, k) \/ ImageSearchThrew(p, k))
                       /\ IndexCall(flows[p], k) \in {"ok", "failed"} =>
                             IndexCall(flows'[p], k) \in {IndexCall(flows[p], k), "none", "waiting"}
                       /\ (IndexCall(flows[p], k) = "pending"
                              /\ IndexCall(flows'[p], k) = "ok") =>
                             /\ collection'[c] = collection[c] \cup TaggedFaces(k, flows[p].gid[k])
                             /\ flows'[p].gid = flows[p].gid
                       /\ (IndexCall(flows[p], k) = "pending"
                              /\ IndexCall(flows'[p], k) = "failed") =>
                             /\ collection' = collection
                             /\ flows'[p].gid = flows[p].gid
              /\ Publishes(p) =>
                    /\ IndexCallsSettled(flows[p])
                    /\ \A k \in PassKeys(flows[p]) :
                          GroupsHolding(faceGroups', k) = {flows[p].gid[k]}]_vars

\* a published pass in which one image's search threw and its index call
\* succeeded under the minted id, and another image's search found a match and
\* its index call failed: that image is still grouped under the adopted id
C29_Witness ==
    /\ strategy = "B"
    /\ flows[0].published
    /\ \E k \in PassKeys(flows[0]) :
          /\ flows[0].srch[k] = "failed"
          /\ flows[0].idx[k] = "ok"
          /\ TaggedFaces(k, flows[0].gid[k]) \subseteq collection["e1"]
    /\ \E k \in PassKeys(flows[0]) :
          /\ flows[0].srch[k] = "ok"
          /\ flows[0].resp[k] # <<>>
          /\ flows[0].idx[k] = "failed"
          /\ flows[0].gid[k] = flows[0].resp[k][1].tag
          /\ GroupsHolding(faceGroups, k) = {flows[0].gid[k]}

----------------------------------------------------------------------------
\* the step in which the pass of flow p issues the create call
IssuesCreate(p) == flows[p].pc # "ensureCreate" /\ flows'[p].pc = "ensureCreate"

\* the step in which ensureCollection returns to the pass of flow p
EnsureReturns(p) ==
    /\ flows[p].pc \in {"ensureList", "ensureCreate"}
    /\ flows'[p].pc \notin {"ensureList", "ensureCreate"}

\* the list call or the create call of the pass threw and the catch logged it
EnsureFailed(f) == f.ensured \in {"listFailed", "createFailed"}

\* the pass has issued a call for every image it was given
CallsIssued(f) ==
    /\ DOMAIN f.idx = PassKeys(f)
    /\ strategy = "B" => DOMAIN f.srch = PassKeys(f)

\* the pass has just entered its concurrent part: every call is out, none answered
CallsJustIssued(f) ==
    IF strategy = "A"
    THEN f.pc = "phase1" /\ f.idx = [k \in PassKeys(f) |-> "pending"]
    ELSE f.pc = "pairs" /\ f.srch = [k \in PassKeys(f) |-> "pending"]
                        /\ DOMAIN f.idx = PassKeys(f)

(* C30: ensureCollection never aborts its caller. The create call is       *)
(* issued only after a list response that does not hold the collection id. *)
(* Whatever the outcome (listed, created, list failed, create failed, also *)
(* a create failing because another pass created the collection after this *)
(* pass listed), the pass goes on with the same images and issues a call   *)
(* for every one of them, and no error is shown. A pass whose              *)
(* ensureCollection failed is never stuck, and it ends by publishing the   *)
(* partition it built.                                                     *)
C30_EnsureCollectionNeverAborts ==
    [][\A p \in FlowIds :
          /\ IssuesCreate(p) =>
                /\ flows[p].pc = "ensureList"
                /\ ~collectionExists[CollectionId(flows[p])]
          /\ EnsureReturns(p) =>
                /\ CallsJustIssued(flows'[p])
                /\ flows'[p].passImages = flows[p].passImages
                /\ flows'[p].ensured \in {"listed", "created", "listFailed", "createFailed"}
                /\ flows'[p].ensured = "listed" => collectionExists[CollectionId(flows[p])]
                /\ error' = error
                /\ faceGroups' = faceGroups
          /\ EnsureFailed(flows[p]) =>
                /\ flows[p].pc \in {"phase1", "phase2", "pairs"}
                /\ CallsIssued(flows[p])
                /\ ENABLED StepOf(p)
                /\ flows'[p].ensured # flows[p].ensured =>
                      /\ Publishes(p)
                      /\ faceGroups' = PartitionBuilt(flows[p])]_vars

\* two passes on the same collection both listed it absent; one created it, the
\* create of the other failed; that pass went on, an index call of it succeeded,
\* every call of it has settled and it is about to publish; no error is shown
C30_Witness ==
    \E p \in FlowIds : \E q \in FlowIds \ {p} :
       /\ CollectionId(flows[p]) = CollectionId(flows[q])
       /\ collectionExists[CollectionId(flows[q])]
       /\ flows[p].pc \notin {"idle", "list", "ensureList", "ensureCreate"}
       /\ flows[q].ensured = "createFailed"
       /\ CallsIssued(flows[q])
       /\ Settled(flows[q])
       /\ \E k \in PassKeys(flows[q]) : flows[q].idx[k] = "ok"
       /\ error = NoError

----------------------------------------------------------------------------
\* the keys the members of the partition refer to
MemberKeys(groups) ==
    {MemberKey(groups[g][j]) : <<g, j>> \in UNION {{g} \X DOMAIN groups[g] : g \in DOMAIN groups}}

\* the keys whose storage delete has been confirmed
DeletedKeys == {dels[d].key : d \in {e \in DOMAIN dels : dels[e].pc = "ok"}}

(* C31: referential consistency of the partition. Whenever no load, no     *)
(* grouping pass and no delete is in flight, every member of every group   *)
(* refers to an image of the current image set, and an image whose delete  *)
(* was confirmed is in no group.                                           *)
C31_PartitionRefersToImages ==
    Quiescent =>
        /\ MemberKeys(faceGroups) \subseteq ImageKeys
        /\ MemberKeys(faceGroups) \cap DeletedKeys = {}

----------------------------------------------------------------------------
\* the indexed face of a match was detected in image k: the face record was
\* created by an index call for that same image
FromSameImage(m, k) == m.face \in Range(FacesIn(k))

(* C32: strategy B self-match exclusion. When the search of an image is    *)
(* answered and the image adopts the tag of a match, that match is a face  *)
(* indexed from a different image, never a face record created from the    *)
(* same image by an earlier index call.                                    *)
C32_NeverAdoptsOwnFaceRecord ==
    [][\A p \in FlowIds : \A k \in Keys :
          ImageSearchAnswered(p, k) =>
              LET r == flows'[p].resp[k]
              IN AdoptableAt(r, k) # {} =>
                    /\ flows'[p].gid[k] = r[Least(AdoptableAt(r, k))].tag
                    /\ ~FromSameImage(r[Least(AdoptableAt(r, k))], k)]_vars

----------------------------------------------------------------------------
\* fetchEventImages of flow p has been called and has not returned
LoadRunning(p) == flows[p].kind = "load" /\ flows[p].pc \notin {"idle", "done"}

\* flow p has listed images and has started a grouping pass over them
PassRunning(p) == flows[p].pc \in {"ensureList", "ensureCreate", "phase1", "phase2", "pairs"}

(* C33: termination of a load. Provided every storage and recognition call *)
(* eventually settles, every load that was started eventually returns, a   *)
(* grouping pass that was started over a non-empty listing eventually      *)
(* publishes a partition, and the loading status eventually becomes false, *)
(* whether the listing succeeded, failed or was empty. Once false, the     *)
(* loading status never becomes true again.                                *)
C33_LoadTerminates ==
    /\ \A p \in FlowIds : LoadRunning(p) ~> (flows[p].pc = "done")
    /\ \A p \in FlowIds : PassRunning(p) ~> (flows[p].published /\ flows[p].pc = "done")
    /\ <>[](~loading)
    /\ [][~loading => ~loading']_vars

\* the load at mount failed at its listing and a reload, started afterwards,
\* has published its partition and returned; the loading status is false
C33_Witness ==
    /\ flows[0].pc = "done"
    /\ flows[0].result = "StorageError"
    /\ flows[ReloadFlow].pc = "done"
    /\ flows[ReloadFlow].published
    /\ flows[ReloadFlow].newGroups # EmptyFn
    /\ faceGroups = flows[ReloadFlow].newGroups
    /\ ~loading

====
